---- MODULE Spec2Model ----
(***************************************************************************)
(* Model of the projection-mode translator of pql/projection/matching.py.  *)
(*                                                                         *)
(* A Python string that may hold a dotted field path is modelled as the    *)
(* sequence of its '.'-separated pieces ("a.b" is <<"a", "b">>, "" is      *)
(* <<"">>), so that '{0}.{1}'.format and split('.')[-1] are computed, not  *)
(* assumed.  None is modelled as the empty sequence <<>>.                  *)
(* A Python value (fragment) is a tagged record; a dict keeps its pairs in *)
(* insertion order.  The result of a handler is either Ok(value) or        *)
(* Raise(exception class, message prefix).                                 *)
(***************************************************************************)
EXTENDS Integers, Sequences, FiniteSets, TLC

VARIABLES expr, kwargs, pc, result

vars == <<expr, kwargs, pc, result>>

(* ------------------------------ bounds -------------------------------- *)
MaxNum == 1
MaxOperands == 2

(* --------------------------- Python values ---------------------------- *)
None == <<>>
PStr(s) == [t |-> "str", s |-> s]
PNum(n) == [t |-> "num", n |-> n]
PBool(b) == [t |-> "bool", b |-> b]
PNone == [t |-> "none"]
PList(items) == [t |-> "list", items |-> items]
PDict(kv) == [t |-> "dict", kv |-> kv]
Pair(k, v) == [k |-> k, v |-> v]
D1(k, v) == PDict(<<Pair(k, v)>>)
Lit(s) == PStr(<<s>>)

NoValue == [t |-> "nothing"]
Ok(v) == [ok |-> TRUE, val |-> v, exc |-> "", msg |-> ""]
Raise(exc, msg) == [ok |-> FALSE, val |-> NoValue, exc |-> exc, msg |-> msg]
\* Python's evaluation of a call whose argument is the call r: an exception
\* raised by r propagates, a value returned by r is handed on to F
Then(r, F(_)) == IF r.ok THEN F(r.val) ELSE r

(* a set-valued keyword argument: None, or a set of field paths *)
NoneSet == [none |-> TRUE, elems |-> {}]
SetOf(S) == [none |-> FALSE, elems |-> S]
Truthy(fs) == ~fs.none /\ fs.elems # {}
InSet(x, fs) == ~fs.none /\ x \in fs.elems

(* **kwargs: the keys passed, and the value of each (None when not passed, *)
(* which is also the default of every keyword parameter in the source)     *)
KW(keys, cf, af, xf) ==
    [keys |-> keys, compared_field |-> cf, array_fields |-> af, complex_fields |-> xf]
NoKwargs == KW({}, None, NoneSet, NoneSet)
AllKeys == {"compared_field", "array_fields", "complex_fields"}

(* ------------------------------ strings ------------------------------- *)
\* str(x) as used by an f-string: None formats as 'None'
Format(s) == IF s = None THEN <<"None">> ELSE s
\* prefix + s
Prefix(p, s) == <<p \o Head(s)>> \o Tail(s)
\* s.split(".")[-1]
LastSegment(s) == <<s[Len(s)]>>
\* '{0}.{1}'.format(base, attr)
Dotted(base, attr) == Format(base) \o <<attr>>

(* ------------------------------ AST nodes ----------------------------- *)
Name(id) == [node |-> "Name", id |-> id]
Attribute(value, attr) == [node |-> "Attribute", value |-> value, attr |-> attr]
Str(s) == [node |-> "Str", s |-> s]
Num(n) == [node |-> "Num", n |-> n]
Dict(keys, values) == [node |-> "Dict", keys |-> keys, values |-> values]
Call(func, args) == [node |-> "Call", func |-> func, args |-> args]
UnaryOp(op, operand) == [node |-> "UnaryOp", op |-> op, operand |-> operand]
BoolOp(op, values) == [node |-> "BoolOp", op |-> op, values |-> values]
Compare(left, ops, comparators) ==
    [node |-> "Compare", left |-> left, ops |-> ops, comparators |-> comparators]
And == [node |-> "And"]
Or == [node |-> "Or"]
Not == [node |-> "Not"]
Eq == [node |-> "Eq"]

\* BaseAstHandler.resolve: no handle_<class name> on the handler
Unsupported == Raise("ParseError", "Unsupported syntax")

(* ---------------------------- field names ----------------------------- *)
RECURSIVE FieldName_handle(_)
FieldName_handle(node) ==
    CASE node.node = "Str" -> Ok(node.s)
      [] node.node = "Name" -> Ok(<<node.id>>)
      [] node.node = "Attribute" ->
            Then(FieldName_handle(node.value), LAMBDA base : Ok(Dotted(base, node.attr)))
      [] OTHER -> Unsupported

(* --------------------------- field handlers --------------------------- *)
\* SPECIAL_VALUES of a field class, looked up the way the class hierarchy
\* finds it: the boolean constants are known to the Bool and Generic fields
SpecialNames(cls) ==
    IF cls \in {"Bool", "Generic"} THEN {"None", "null", "true", "false", "True", "False"}
    ELSE {"None", "null"}
SpecialValue(id) ==
    CASE id \in {"true", "True"} -> PBool(TRUE)
      [] id \in {"false", "False"} -> PBool(FALSE)
      [] OTHER -> PNone

\* the field reference of ProjectionStringField.handle_Str, ProjectionIntField.handle_Num
\* and ProjectionStringFunc.handle_regexMatch
FieldRef(compared_field, array_fields) ==
    IF Truthy(array_fields) /\ InSet(compared_field, array_fields)
    THEN Prefix("$$", LastSegment(compared_field))
    ELSE Prefix("$", Format(compared_field))

\* ProjectionField.handle_Name(self, node, compared_field=None, **kwargs)
handle_Name(cls, node, kw) ==
    IF node.id \in SpecialNames(cls)
    THEN Ok(D1(Lit("$eq"), PList(<<PStr(Prefix("$", Format(kw.compared_field))),
                                   SpecialValue(node.id)>>)))
    ELSE Raise("ParseError", "Invalid name")

\* ProjectionStringField.handle_Str
handle_Str(node, kw) ==
    IF kw.compared_field = None \/ kw.compared_field = <<"">>
    THEN Ok(PStr(node.s))
    ELSE Ok(D1(Lit("$eq"), PList(<<PStr(FieldRef(kw.compared_field, kw.array_fields)),
                                   PStr(node.s)>>)))

\* ProjectionIntField.handle_Num
handle_Num(node, kw) ==
    Ok(D1(Lit("$eq"), PList(<<PStr(FieldRef(kw.compared_field, kw.array_fields)),
                              PNum(node.n)>>)))

\* ProjectionStringField().handle(node, **kw)
StringField_handle(node, kw) ==
    CASE node.node = "Str" -> handle_Str(node, kw)
      [] node.node = "Name" -> handle_Name("String", node, kw)
      [] OTHER -> Unsupported

\* ProjectionBoolField().handle(node, **kw)
BoolField_handle(node, kw) ==
    CASE node.node = "Name" -> handle_Name("Bool", node, kw)
      [] OTHER -> Unsupported

(* -------------------------- function handlers ------------------------- *)
\* BaseFunc.get_arg(node, index), index counted from 0
get_arg(node, index) ==
    IF index > Len(node.args) - 1
    THEN Raise("ParseError", "Missing argument")
    ELSE Ok(node.args[index + 1])

\* ProjectionFunc.parse_arg(node, index, field): every call site passes no kwargs
parse_arg(node, index, cls) ==
    Then(get_arg(node, index),
         LAMBDA arg : IF cls = "Bool" THEN BoolField_handle(arg, NoKwargs)
                      ELSE StringField_handle(arg, NoKwargs))

\* ProjectionFunc.handle_exists(self, node): takes no keyword argument
handle_exists(node, kw) ==
    IF kw.keys # {}
    THEN Raise("TypeError", "unexpected keyword argument")
    ELSE Then(parse_arg(node, 0, "Bool"), LAMBDA arg : Ok(D1(Lit("$exists"), arg)))

\* the two clauses built by handle_regexMatch; options is the sequence of
\* the pairs that follow 'regex' in the $regexMatch mapping
regexMatch_result(field, regex, options) ==
    D1(Lit("$and"), PList(<<
        D1(Lit("$eq"), PList(<<Lit("string"), D1(Lit("$type"), PStr(field))>>)),
        D1(Lit("$regexMatch"),
           PDict(<<Pair(Lit("input"), PStr(field)), Pair(Lit("regex"), regex)>> \o options))>>))

\* a second argument that is never stored
regexMatch_options_dropped(field, regex, options) ==
    IF options.ok \/ options.exc = "ParseError"
    THEN Ok(regexMatch_result(field, regex, <<>>))
    ELSE options

\* lines 231-235: the second argument is kept when it translates, and a
\* ParseError raised for it is passed over
regexMatch_options(field, regex, options) ==
    IF options.ok
    THEN Ok(regexMatch_result(field, regex, <<Pair(Lit("options"), options.val)>>))
    ELSE IF options.exc = "ParseError" THEN Ok(regexMatch_result(field, regex, <<>>))
    ELSE options

\* ProjectionStringFunc.handle_regexMatch
handle_regexMatch(node, kw) ==
    Then(parse_arg(node, 0, "String"),
         LAMBDA regex : regexMatch_options(FieldRef(kw.compared_field, kw.array_fields),
                                           regex, parse_arg(node, 1, "String")))

\* ProjectionFunc.handle, on a ProjectionGenericFunc
GenericFunc_handle(node, kw) ==
    IF node.func.node # "Name" THEN Raise("AttributeError", "id")
    ELSE CASE node.func.id = "regexMatch" -> handle_regexMatch(node, kw)
           [] node.func.id = "exists" -> handle_exists(node, kw)
           [] OTHER -> Raise("ParseError", "Unsupported function")

(* -------------------- dict literals, generic field -------------------- *)
RECURSIVE GenericField_handle(_, _)
RECURSIVE DictItems(_, _)

\* one {key: value} of the comprehension of ProjectionDictField.handle_Dict:
\* the key, then the value, then the mapping (whose key must be hashable)
DictItem(key, value) ==
    Then(StringField_handle(key, NoKwargs), LAMBDA k :
    Then(GenericField_handle(value, NoKwargs), LAMBDA v :
         IF k.t # "str" THEN Raise("TypeError", "unhashable type") ELSE Ok(D1(k, v))))

\* the comprehension over zip(node.keys, node.values), from pair i on
DictItems(node, i) ==
    IF i > Len(node.keys) THEN Ok(<<>>)
    ELSE Then(DictItem(node.keys[i], node.values[i]), LAMBDA item :
         Then(DictItems(node, i + 1), LAMBDA rest : Ok(<<item>> \o rest)))

\* ProjectionDictField.handle_Dict(self, node, **kwargs)
handle_Dict(node, kw) ==
    Then(DictItems(node, 1), LAMBDA items : Ok(D1(Lit("$and"), PList(items))))

\* ProjectionGenericField.handle_Call
GenericField_handle_Call(node, kw) == GenericFunc_handle(node, kw)

\* ProjectionGenericField().handle(node, **kw)
GenericField_handle(node, kw) ==
    CASE node.node = "Num" -> handle_Num(node, kw)
      [] node.node = "Str" -> handle_Str(node, kw)
      [] node.node = "Name" -> handle_Name("Generic", node, kw)
      [] node.node = "Dict" -> handle_Dict(node, kw)
      [] node.node = "Call" -> GenericField_handle_Call(node, kw)
      [] OTHER -> Unsupported

(* ----------------------------- operator map --------------------------- *)
\* ProjectionOperator.handle_Eq
handle_Eq(node, kw) ==
    GenericField_handle(node, KW(AllKeys, kw.compared_field, kw.array_fields,
                                 kw.complex_fields))

\* ProjectionField.handle_operator_with_right_and_left: this file defines Eq only
handle_operator_with_right_and_left(operator, right, kw) ==
    CASE operator.node = "Eq" -> handle_Eq(right, kw)
      [] OTHER -> Unsupported

\* the existential template of ProjectionMap.handle (lines 114-143)
Elevated(field, condition) ==
    D1(Lit("$and"), PList(<<
        D1(Lit("$isArray"), PStr(Prefix("$", field))),
        D1(Lit("$anyElementTrue"),
           D1(Lit("$map"), PDict(<<
              Pair(Lit("input"),
                   D1(Lit("$cond"), PDict(<<
                      Pair(Lit("if"), D1(Lit("$isArray"), PStr(Prefix("$", field)))),
                      Pair(Lit("then"), PStr(Prefix("$", field))),
                      Pair(Lit("else"), PList(<<>>))>>))),
              Pair(Lit("as"), PStr(LastSegment(field))),
              Pair(Lit("in"),
                   D1(Lit("$cond"), PDict(<<
                      Pair(Lit("if"), condition),
                      Pair(Lit("then"), PBool(TRUE)),
                      Pair(Lit("else"), PBool(FALSE))>>)))>>)))>>))

\* a test that forgets complex_fields
IsElevated_array_only(field, array_fields, complex_fields) ==
    Truthy(array_fields) /\ InSet(field, array_fields)

\* the test of line 113
IsElevated(field, array_fields, complex_fields) ==
    /\ Truthy(complex_fields) /\ InSet(field, complex_fields)
    /\ Truthy(array_fields) /\ InSet(field, array_fields)

\* ProjectionMap.handle(operator, left, right, compared_field=None,
\*                      array_fields=None, complex_fields=None)
ProjectionMap_handle(operator, left, right, kw) ==
    Then(FieldName_handle(left), LAMBDA field :
    Then(handle_operator_with_right_and_left(operator, right,
            KW(AllKeys, field, kw.array_fields, kw.complex_fields)), LAMBDA condition :
         IF IsElevated(field, kw.array_fields, kw.complex_fields)
         THEN Ok(Elevated(field, condition))
         ELSE Ok(condition)))

(* -------------------------------- parser ------------------------------ *)
\* f'\"{s}\"'
Quoted(s) ==
    LET q == Prefix("\"", s)
    IN SubSeq(q, 1, Len(q) - 1) \o <<q[Len(q)] \o "\"">>

\* ProjectionParser.handle_Call
Parser_handle_Call(op, kw) ==
    IF op.func.node # "Name" THEN Raise("AttributeError", "id")
    ELSE IF op.func.id # "search" THEN Raise("ParseError", "Unsupported method call")
    ELSE IF Len(op.args) = 0 THEN Raise("IndexError", "list index out of range")
    ELSE IF op.args[1].node # "Str" THEN Raise("AttributeError", "s")
    ELSE Ok(D1(Lit("$text"), PDict(<<Pair(Lit("$search"), PStr(Quoted(op.args[1].s))),
                                     Pair(Lit("$caseSensitive"), PBool(FALSE))>>)))

\* ProjectionParser.handle_And, handle_Or
handle_And(op, kw) == Ok(Lit("$and"))
handle_Or(op, kw) == Ok(Lit("$or"))
\* BaseParser.handle_Not
handle_Not(op) == Ok(Lit("$not"))

\* the field-to-field comparison translator of the base parser
handle_field_comparison(compare) == Ok(D1(Lit("$expr"), Lit("field comparison")))

\* lines 72-75: a ParseError whose message starts with 'Unsupported syntax'
\* is answered by the field comparison, anything else is passed on
Compare_except(compare, r) ==
    IF ~r.ok /\ r.exc = "ParseError" /\ r.msg = "Unsupported syntax"
    THEN handle_field_comparison(compare)
    ELSE r

\* ProjectionParser.handle_Compare
Parser_handle_Compare(compare, kw) ==
    IF Len(compare.comparators) = 0 THEN Raise("IndexError", "list index out of range")
    ELSE IF Len(compare.comparators) # 1
         THEN Raise("ParseError", "Invalid number of comparators")
    ELSE Compare_except(compare, ProjectionMap_handle(compare.ops[1], compare.left,
                                                      compare.comparators[1], kw))

RECURSIVE Parser_handle(_, _)
RECURSIVE MapHandle(_, _, _)

\* a fold that collects the operands last to first
RECURSIVE MapHandle_reversed(_, _, _)
MapHandle_reversed(values, i, kw) ==
    IF i > Len(values) THEN Ok(<<>>)
    ELSE Then(Parser_handle(values[i], kw), LAMBDA v :
         Then(MapHandle_reversed(values, i + 1, kw), LAMBDA rest : Ok(rest \o <<v>>)))

\* list(map(handle_op, values)), from operand i on: stops at the first failure
MapHandle(values, i, kw) ==
    IF i > Len(values) THEN Ok(<<>>)
    ELSE Then(Parser_handle(values[i], kw), LAMBDA v :
         Then(MapHandle(values, i + 1, kw), LAMBDA rest : Ok(<<v>> \o rest)))

\* ProjectionParser.handle_BoolOp
Parser_handle_BoolOp(op, kw) ==
    Then(Parser_handle(op.op, kw), LAMBDA key :
    Then(MapHandle(op.values, 1, kw), LAMBDA values : Ok(D1(key, PList(values)))))

\* field, value = list(operator.items())[0]
FirstItem(operator) ==
    IF operator.t # "dict" THEN Raise("AttributeError", "items")
    ELSE IF operator.kv = <<>> THEN Raise("IndexError", "list index out of range")
    ELSE Ok(operator.kv[1])

\* the operator placed under the first key of the operand, as the
\* non-projection parser places it
Parser_handle_UnaryOp_under_field(op, kw) ==
    Then(Parser_handle(op.operand, kw), LAMBDA operator :
    Then(FirstItem(operator), LAMBDA item :
    Then(Parser_handle(op.op, NoKwargs), LAMBDA not : Ok(D1(item.k, D1(not, item.v))))))

\* ProjectionParser.handle_UnaryOp
Parser_handle_UnaryOp(op, kw) ==
    Then(Parser_handle(op.operand, kw), LAMBDA operator :
    Then(FirstItem(operator), LAMBDA item :
    Then(Parser_handle(op.op, NoKwargs), LAMBDA not : Ok(D1(not, D1(item.k, item.v))))))

\* ProjectionAstHandler.handle, on a ProjectionParser
Parser_handle(node, kw) ==
    CASE node.node = "Call" -> Parser_handle_Call(node, kw)
      [] node.node = "BoolOp" -> Parser_handle_BoolOp(node, kw)
      [] node.node = "UnaryOp" -> Parser_handle_UnaryOp(node, kw)
      [] node.node = "Compare" -> Parser_handle_Compare(node, kw)
      [] node.node = "And" -> handle_And(node, kw)
      [] node.node = "Or" -> handle_Or(node, kw)
      [] node.node = "Not" -> handle_Not(node)
      [] OTHER -> Unsupported

(* ------------------------------- inputs ------------------------------- *)
\* field paths on the left of a comparison; a number is not a field
Lefts == {Name("a"), Attribute(Name("a"), "b"), Num(0)}

\* literals, special-value names, and field references on the right
Scalars ==
    {Str(<<"x">>)} \cup {Num(n) : n \in 0..MaxNum}
    \cup {Name("true"), Name("null"), Name("b"), Attribute(Name("a"), "b")}

\* calls on the right of a comparison
RegexCalls ==
    {Call(Name("regexMatch"), args) :
        args \in {<<>>, <<Str(<<"^p">>)>>, <<Str(<<"^p">>), Str(<<"i">>)>>,
                  <<Str(<<"^p">>), Num(0)>>, <<Str(<<"^p">>), Name("null")>>,
                  <<Str(<<"^p">>), Name("b")>>, <<Num(0)>>, <<Name("b")>>}}
ExistsCalls ==
    {Call(Name("exists"), args) :
        args \in {<<>>, <<Name("true")>>, <<Name("false")>>, <<Str(<<"x">>)>>}}
OtherCalls == {Call(Name("foo"), <<>>), Call(Attribute(Name("a"), "exists"), <<Name("true")>>)}
Calls == RegexCalls \cup ExistsCalls \cup OtherCalls

\* dict literals on the right of a comparison
DictKeys == {Str(<<"k">>), Str(<<"j">>), Num(0), Name("null")}
DictValues ==
    {Num(MaxNum), Str(<<"x">>), Name("b"), Call(Name("exists"), <<Name("true")>>),
     Call(Name("regexMatch"), <<Str(<<"^p">>)>>),
     Dict(<<Str(<<"j">>)>>, <<Num(0)>>)}
Dicts ==
    {Dict(<<k>>, <<v>>) : k \in DictKeys, v \in DictValues}
    \cup {Dict(<<Str(<<"k">>), Str(<<"j">>)>>, <<v, w>>) : v \in DictValues, w \in DictValues}

Rights == Scalars \cup Calls \cup Dicts

Compares ==
    {Compare(l, <<Eq>>, <<r>>) : l \in Lefts, r \in Rights}
    \cup {Compare(Name("a"), <<Eq, Eq>>, <<Num(0), r>>) : r \in Scalars}

\* top-level calls
TopCalls ==
    {Call(Name("search"), args) :
        args \in {<<>>, <<Str(<<"needle">>)>>, <<Str(<<"a", "b">>)>>, <<Num(0)>>,
                  <<Name("b")>>, <<Str(<<"needle">>), Str(<<"x">>)>>}}
    \cup {Call(Name("find"), <<Str(<<"needle">>)>>),
          Call(Attribute(Name("a"), "search"), <<Str(<<"needle">>)>>)}

\* operands of and/or/not
Operands0 ==
    {Compare(Name("a"), <<Eq>>, <<Str(<<"x">>)>>),
     Compare(Attribute(Name("a"), "b"), <<Eq>>, <<Num(0)>>),
     Compare(Name("a"), <<Eq>>, <<Name("b")>>),
     Compare(Name("a"), <<Eq>>, <<Attribute(Name("a"), "b")>>),
     Call(Name("search"), <<Str(<<"needle">>)>>)}
Operands1 ==
    Operands0
    \cup {BoolOp(And, <<Compare(Name("a"), <<Eq>>, <<Num(0)>>),
                        Compare(Attribute(Name("a"), "b"), <<Eq>>, <<Str(<<"x">>)>>)>>),
          BoolOp(Or, <<Compare(Name("a"), <<Eq>>, <<Num(0)>>),
                       Compare(Name("a"), <<Eq>>, <<Str(<<"x">>)>>)>>),
          UnaryOp(Not, Compare(Name("a"), <<Eq>>, <<Num(0)>>))}

SeqsUpTo(S, lo, hi) == UNION {[1..n -> S] : n \in lo..hi}
BoolOps == {BoolOp(op, vs) : op \in {And, Or}, vs \in SeqsUpTo(Operands1, 2, MaxOperands)}

UnaryOps ==
    {UnaryOp(Not, e) : e \in Operands1}
    \cup {UnaryOp(Not, Compare(l, <<Eq>>, <<r>>)) : l \in Lefts, r \in Scalars \cup Calls}
    \cup {UnaryOp(Not, BoolOp(op, vs)) : op \in {And, Or}, vs \in SeqsUpTo(Operands0, 2, 2)}

\* expressions the parser has no handler for at the top level
Bare == {Name("a"), Num(0), Str(<<"x">>)}

Exprs == Compares \cup TopCalls \cup BoolOps \cup UnaryOps \cup Bare

FieldSets ==
    {NoneSet, SetOf({}), SetOf({<<"a">>}), SetOf({<<"a", "b">>}), SetOf({<<"a">>, <<"a", "b">>})}
\* the keyword arguments given to parse(): a keyword left out keeps None
Contexts ==
    {KW({k \in AllKeys : \/ k = "compared_field" /\ cf # None
                         \/ k = "array_fields" /\ ~af.none
                         \/ k = "complex_fields" /\ ~xf.none}, cf, af, xf) :
        cf \in {None, <<"z">>}, af \in FieldSets, xf \in FieldSets}

(* ---------------------------- state machine --------------------------- *)
NoResult == [ok |-> FALSE, val |-> NoValue, exc |-> "", msg |-> "pending"]

Init ==
    /\ expr \in Exprs
    /\ kwargs \in Contexts
    /\ pc = "parsed"
    /\ result = NoResult

\* ProjectionAstHandler.parse: handle(ex.body, **kwargs), one action per
\* handler that resolve() selects for the root of the tree
Finish(r) ==
    /\ result' = r
    /\ pc' = "done"
    /\ UNCHANGED <<expr, kwargs>>

TranslateCall ==
    /\ pc = "parsed" /\ expr.node = "Call"
    /\ Finish(Parser_handle_Call(expr, kwargs))

TranslateBoolOp ==
    /\ pc = "parsed" /\ expr.node = "BoolOp"
    /\ Finish(Parser_handle_BoolOp(expr, kwargs))

TranslateUnaryOp ==
    /\ pc = "parsed" /\ expr.node = "UnaryOp"
    /\ Finish(Parser_handle_UnaryOp(expr, kwargs))

TranslateCompare ==
    /\ pc = "parsed" /\ expr.node = "Compare"
    /\ Finish(Parser_handle_Compare(expr, kwargs))

TranslateUnsupported ==
    /\ pc = "parsed" /\ expr.node \notin {"Call", "BoolOp", "UnaryOp", "Compare"}
    /\ Finish(Parser_handle(expr, kwargs))

Next ==
    \/ TranslateCall
    \/ TranslateBoolOp
    \/ TranslateUnaryOp
    \/ TranslateCompare
    \/ TranslateUnsupported

Spec == Init /\ [][Next]_vars

TypeOK ==
    /\ pc \in {"parsed", "done"}
    /\ pc = "parsed" => result = NoResult
    /\ pc = "done" => result = Parser_handle(expr, kwargs)

(* ======================= properties of the translator ================= *)
Done == pc = "done"
right == expr.comparators[1]

\* the field path of a left operand: an identifier is its own name, an
\* attribute path is the path of its base, then "." and the attribute name
RECURSIVE FieldPath(_)
FieldPath(node) ==
    IF node.node = "Attribute" THEN FieldPath(node.value) \o <<node.attr>> ELSE <<node.id>>
IsFieldNode(node) == node.node \in {"Name", "Attribute"}
IsFieldCompare ==
    /\ expr.node = "Compare" /\ Len(expr.comparators) = 1 /\ IsFieldNode(expr.left)
P == FieldPath(expr.left)
Member(path, fs) == ~fs.none /\ path \in fs.elems
InBoth == Member(P, kwargs.array_fields) /\ Member(P, kwargs.complex_fields)

\* the reference-form rule: "$$" + last segment for an array field, else "$" + path
RefForm(path) ==
    IF Member(path, kwargs.array_fields)
    THEN <<"$$" \o path[Len(path)]>>
    ELSE <<"$" \o path[1]>> \o Tail(path)
RootForm(path) == <<"$" \o path[1]>> \o Tail(path)
AliasForm(path) == <<"$$" \o path[Len(path)]>>

\* the existential template, for field path and iteration body cond
Template(path, cond) ==
    D1(Lit("$and"), PList(<<
        D1(Lit("$isArray"), PStr(RootForm(path))),
        D1(Lit("$anyElementTrue"), D1(Lit("$map"), PDict(<<
            Pair(Lit("input"), D1(Lit("$cond"), PDict(<<
                Pair(Lit("if"), D1(Lit("$isArray"), PStr(RootForm(path)))),
                Pair(Lit("then"), PStr(RootForm(path))),
                Pair(Lit("else"), PList(<<>>))>>))),
            Pair(Lit("as"), PStr(<<path[Len(path)]>>)),
            Pair(Lit("in"), D1(Lit("$cond"), PDict(<<
                Pair(Lit("if"), cond),
                Pair(Lit("then"), PBool(TRUE)),
                Pair(Lit("else"), PBool(FALSE))>>)))>>)))>>))
\* a condition on the compared field, wrapped when the field is in both sets
Wrapped(cond) == IF InBoth THEN Template(P, cond) ELSE cond

IsScalarLiteral(node) == node.node \in {"Str", "Num"}
LitValue(node) == IF node.node = "Str" THEN PStr(node.s) ELSE PNum(node.n)
EqFragment(ref, value) == D1(Lit("$eq"), PList(<<PStr(ref), value>>))

\* C1: a comparison P == X with a scalar literal X yields the existential
\* template around {"$eq": ["$$" + last_segment(P), X]} exactly when P is in
\* both array_fields and complex_fields; otherwise it yields the bare
\* condition {"$eq": [reference form of P, X]}
C1_ElevatedIffInBoth ==
    (Done /\ IsFieldCompare /\ IsScalarLiteral(right)) =>
        /\ result.ok
        /\ InBoth => result.val = Template(P, EqFragment(AliasForm(P), LitValue(right)))
        /\ ~InBoth => result.val = EqFragment(RefForm(P), LitValue(right))
        /\ (~InBoth /\ ~Member(P, kwargs.array_fields)) =>
                result.val = EqFragment(RootForm(P), LitValue(right))

C1_Witness ==
    /\ Done /\ IsFieldCompare /\ IsScalarLiteral(right)
    /\ InBoth /\ Len(P) = 2
    /\ result.ok /\ result.val.kv[1].k = Lit("$and")

\* the value under a key of a mapping
Get(d, key) == d.kv[CHOOSE i \in 1..Len(d.kv) : d.kv[i].k = Lit(key)].v
\* the strings at the leaves of a fragment (keys of mappings left out)
RECURSIVE Leaves(_)
Leaves(v) ==
    CASE v.t = "str" -> {v.s}
      [] v.t = "list" -> UNION {Leaves(v.items[i]) : i \in 1..Len(v.items)}
      [] v.t = "dict" -> UNION {Leaves(v.kv[i].v) : i \in 1..Len(v.kv)}
      [] OTHER -> {}
\* the condition produced for the compared field: the iteration body when
\* the result is the existential template, else the result itself
Condition ==
    IF InBoth
    THEN Get(Get(Get(Get(result.val, "$and").items[2], "$anyElementTrue"), "$map"),
             "in").kv[1].v.kv[1].v
    ELSE result.val
IsFallback == result = handle_field_comparison(expr)
BoolNames == {"true", "false", "True", "False"}
NullNames == {"None", "null"}
IsSpecialName(node) == node.node = "Name" /\ node.id \in BoolNames \cup NullNames
IsCallTo(node, id) == node.node = "Call" /\ node.func.node = "Name" /\ node.func.id = id

\* C2: in the condition produced for F == X (X a string, a number, a
\* special-value name or a regexMatch call that translates), every reference
\* to F is "$$" + last_segment(F) and never "$F" when F is in array_fields,
\* and is "$F" when it is not
C2_AliasScopedReferences ==
    (/\ Done /\ IsFieldCompare /\ result.ok /\ ~IsFallback
     /\ \/ IsScalarLiteral(right) \/ IsSpecialName(right) \/ IsCallTo(right, "regexMatch")) =>
        IF Member(P, kwargs.array_fields)
        THEN AliasForm(P) \in Leaves(Condition) /\ RootForm(P) \notin Leaves(Condition)
        ELSE RootForm(P) \in Leaves(Condition) /\ AliasForm(P) \notin Leaves(Condition)

IsNot == expr.node = "UnaryOp" /\ expr.op = Not
IsComposite(e) == e.node = "BoolOp"
IsQuantified(e) ==
    /\ e.node = "Compare" /\ Len(e.comparators) = 1 /\ IsFieldNode(e.left)
    /\ Member(FieldPath(e.left), kwargs.array_fields)
    /\ Member(FieldPath(e.left), kwargs.complex_fields)
operand == Parser_handle(expr.operand, kwargs)

C3_WitnessQuantified ==
    /\ Done /\ IsNot /\ result.ok /\ IsQuantified(expr.operand)

IsBoolOp == expr.node = "BoolOp"
operands == [i \in 1..Len(expr.values) |-> Parser_handle(expr.values[i], kwargs)]

\* C4: an and/or node translates to {"$and" | "$or": [f1, ..., fn]} where fi
\* is the translation of the i-th operand alone under the context the
\* combination received: same number of operands, source order, a nested
\* combination kept as one nested fragment
C4_BoolOpMapsOperands ==
    (Done /\ IsBoolOp /\ \A i \in 1..Len(expr.values) : operands[i].ok) =>
        /\ result.ok
        /\ Len(result.val.kv) = 1
        /\ result.val.kv[1].k = (IF expr.op = And THEN Lit("$and") ELSE Lit("$or"))
        /\ result.val.kv[1].v.t = "list"
        /\ Len(result.val.kv[1].v.items) = Len(expr.values)
        /\ \A i \in 1..Len(expr.values) : result.val.kv[1].v.items[i] = operands[i].val

C4_Witness ==
    /\ Done /\ IsBoolOp /\ result.ok
    /\ expr.values[1].node = "BoolOp" /\ expr.values[1].op # expr.op
    /\ expr.values[2].node = "Compare"
    /\ expr.values[1] # expr.values[2]
    /\ Member(<<"a">>, kwargs.array_fields) /\ kwargs.compared_field # None

\* C5: F == exists(b) with a boolean b, F in neither set, yields
\* {"F": {"$exists": b}}
C5_ExistsYieldsFieldMapping ==
    (/\ Done /\ IsFieldCompare /\ IsCallTo(right, "exists")
     /\ Len(right.args) = 1 /\ right.args[1].node = "Name" /\ right.args[1].id \in BoolNames
     /\ ~Member(P, kwargs.array_fields) /\ ~Member(P, kwargs.complex_fields)) =>
        result = Ok(D1(PStr(P), D1(Lit("$exists"), SpecialValue(right.args[1].id))))

\* the arguments of a regexMatch call are one or two string literals
StringArgs(call) ==
    /\ Len(call.args) \in {1, 2}
    /\ \A i \in 1..Len(call.args) : call.args[i].node = "Str"

C7_OtherCallShapesAreParseErrors ==
    (Done /\ expr.node = "Call") =>
        IF IsCallTo(expr, "search") /\ Len(expr.args) = 1 /\ expr.args[1].node = "Str"
        THEN result = Ok(D1(Lit("$text"), PDict(<<
                Pair(Lit("$search"), PStr(Quoted(expr.args[1].s))),
                Pair(Lit("$caseSensitive"), PBool(FALSE))>>)))
        ELSE ~result.ok /\ result.exc = "ParseError"

\* C8: a comparison with one comparator takes the field-to-field fallback
\* exactly when its right operand is itself a node the field handler has no
\* translation for; a failure raised while translating the left operand or
\* inside a call argument or dict value is passed on; more than one
\* comparator fails before either path is tried
C8_FallbackOnlyOnOperatorMismatch ==
    (Done /\ expr.node = "Compare") =>
        IF Len(expr.comparators) # 1
        THEN result = Raise("ParseError", "Invalid number of comparators")
        ELSE IsFallback <=> (IsFieldNode(expr.left) /\ right.node = "Attribute")

\* C9: F == {k1: v1, ...} with string keys and string or number values
\* yields {"$and": [{k1: {"$eq": [reference form of F, v1]}}, ...]} in key
\* order
C9_DictValuesSeeComparedField ==
    (/\ Done /\ IsFieldCompare /\ right.node = "Dict"
     /\ \A i \in 1..Len(right.keys) :
            right.keys[i].node = "Str" /\ IsScalarLiteral(right.values[i])) =>
        result = Ok(Wrapped(D1(Lit("$and"), PList(
                    [i \in 1..Len(right.keys) |->
                        D1(PStr(right.keys[i].s),
                           EqFragment(RefForm(P), LitValue(right.values[i])))]))))

\* C10: apart from the fallback of a comparison, a failure of an operand of
\* and/or, of the operand of not, or of a supplied argument of regexMatch
\* makes the whole translation fail
C10_AllOrNothing ==
    Done =>
        /\ IsBoolOp => ((\E i \in 1..Len(expr.values) : ~operands[i].ok) => ~result.ok)
        /\ IsNot => (~operand.ok => ~result.ok)
        /\ (IsFieldCompare /\ IsCallTo(right, "regexMatch")) =>
              ((\E i \in 1..Len(right.args) :
                    ~StringField_handle(right.args[i], NoKwargs).ok)
               => (~result.ok \/ IsFallback))

====
